---- MODULE Spec2Model ----
(***************************************************************************)
(* Model of mynet-parser.py: the name and phone normalizers and the        *)
(* per-record pipeline of process_csv.                                     *)
(*                                                                         *)
(* A Python string is a sequence of characters.  A printable ASCII         *)
(* character is the one-character string itself; any other code point is   *)
(* written "uXXXX" (its hexadecimal code point), e.g. "u0130" is LATIN     *)
(* CAPITAL LETTER I WITH DOT ABOVE and "u0307" is COMBINING DOT ABOVE.     *)
(***************************************************************************)
EXTENDS Naturals, Sequences, FiniteSets, TLC

(***************************************************************************)
(* Character classes and case mappings                                     *)
(***************************************************************************)

\* a-z and A-Z (string.ascii_letters; the ranges a-zA-Z of the patterns)
AsciiLower ==
    { "a", "b", "c", "d", "e", "f", "g", "h", "i", "j", "k", "l", "m",
      "n", "o", "p", "q", "r", "s", "t", "u", "v", "w", "x", "y", "z" }

AsciiUpper ==
    { "A", "B", "C", "D", "E", "F", "G", "H", "I", "J", "K", "L", "M",
      "N", "O", "P", "Q", "R", "S", "T", "U", "V", "W", "X", "Y", "Z" }

AsciiLetters == AsciiLower \cup AsciiUpper

\* string.whitespace: space, \t, \n, \r, \x0b, \x0c
AsciiWhitespace == { " ", "u0009", "u000A", "u000D", "u000B", "u000C" }

\* what \s, str.strip() and str.split() treat as white space on a str:
\* string.whitespace and the Unicode spaces, of which NO-BREAK SPACE is kept
UnicodeWhitespace == AsciiWhitespace \cup { "u00A0" }

\* \d on a str pattern, for the ASCII digits
Digits == { "0", "1", "2", "3", "4", "5", "6", "7", "8", "9" }

\* the non-ASCII letters inside the character class of clean_name,
\* replace_non_latin_characters and is_latin_name
PatternDiacritics ==
    { "u00E7", "u00C7", "u011F", "u011E", "u0131", "u0130", "u00F6", "u00D6", "u015F", "u015E",
    "u00FC", "u00DC", "u00E9", "u00C9", "u00E8", "u00C8", "u00EA", "u00CA", "u00E1", "u00C1",
    "u00E0", "u00C0", "u00E2", "u00C2", "u00ED", "u00CD", "u00EC", "u00CC", "u00EE", "u00CE",
    "u00F3", "u00D3", "u00F2", "u00D2", "u00F4", "u00D4", "u00FA", "u00DA", "u00F9", "u00D9",
    "u00FB", "u00DB", "u00FF", "u0178", "u00FD", "u00DD", "u017E", "u017D", "u00F1", "u00D1",
    "u00DF" }

ValidDiacritics ==
    { "u00E4", "u00F6", "u00FC", "u00DF", "u00C4", "u00D6", "u00DC", "u00E1", "u00E0", "u00E2",
    "u00E3", "u00E5", "u00E7", "u00E9", "u00E8", "u00EA", "u00EB", "u00ED", "u00EC", "u00EE",
    "u00EF", "u00F1", "u00F3", "u00F2", "u00F4", "u00F5", "u00F8", "u00FA", "u00F9", "u00FB",
    "u00FD", "u00FF", "u00C1", "u00C0", "u00C2", "u00C3", "u00C5", "u00C7", "u00C9", "u00C8",
    "u00CA", "u00CB", "u00CD", "u00CC", "u00CE", "u00CF", "u00D1", "u00D3", "u00D2", "u00D4",
    "u00D5", "u00D8", "u00DA", "u00D9", "u00DB", "u00DD" }

LowerTable ==
    "A" :> <<"a">> @@ "B" :> <<"b">> @@ "C" :> <<"c">> @@ "D" :> <<"d">> @@ "E" :> <<"e">> @@
    "F" :> <<"f">> @@ "G" :> <<"g">> @@ "H" :> <<"h">> @@ "I" :> <<"i">> @@ "J" :> <<"j">> @@
    "K" :> <<"k">> @@ "L" :> <<"l">> @@ "M" :> <<"m">> @@ "N" :> <<"n">> @@ "O" :> <<"o">> @@
    "P" :> <<"p">> @@ "Q" :> <<"q">> @@ "R" :> <<"r">> @@ "S" :> <<"s">> @@ "T" :> <<"t">> @@
    "U" :> <<"u">> @@ "V" :> <<"v">> @@ "W" :> <<"w">> @@ "X" :> <<"x">> @@ "Y" :> <<"y">> @@
    "Z" :> <<"z">> @@ "u00C7" :> <<"u00E7">> @@ "u011E" :> <<"u011F">> @@
    "u0130" :> <<"i", "u0307">> @@ "u00D6" :> <<"u00F6">> @@ "u015E" :> <<"u015F">> @@
    "u00DC" :> <<"u00FC">> @@ "u00C9" :> <<"u00E9">> @@ "u00C8" :> <<"u00E8">> @@
    "u00CA" :> <<"u00EA">> @@ "u00C1" :> <<"u00E1">> @@ "u00C0" :> <<"u00E0">> @@
    "u00C2" :> <<"u00E2">> @@ "u00CD" :> <<"u00ED">> @@ "u00CC" :> <<"u00EC">> @@
    "u00CE" :> <<"u00EE">> @@ "u00D3" :> <<"u00F3">> @@ "u00D2" :> <<"u00F2">> @@
    "u00D4" :> <<"u00F4">> @@ "u00DA" :> <<"u00FA">> @@ "u00D9" :> <<"u00F9">> @@
    "u00DB" :> <<"u00FB">> @@ "u0178" :> <<"u00FF">> @@ "u00DD" :> <<"u00FD">> @@
    "u017D" :> <<"u017E">> @@ "u00D1" :> <<"u00F1">> @@ "u00C4" :> <<"u00E4">> @@
    "u00C3" :> <<"u00E3">> @@ "u00C5" :> <<"u00E5">> @@ "u00CB" :> <<"u00EB">> @@
    "u00CF" :> <<"u00EF">> @@ "u00D5" :> <<"u00F5">> @@ "u00D8" :> <<"u00F8">>

TitleTable ==
    "a" :> <<"A">> @@ "b" :> <<"B">> @@ "c" :> <<"C">> @@ "d" :> <<"D">> @@ "e" :> <<"E">> @@
    "f" :> <<"F">> @@ "g" :> <<"G">> @@ "h" :> <<"H">> @@ "i" :> <<"I">> @@ "j" :> <<"J">> @@
    "k" :> <<"K">> @@ "l" :> <<"L">> @@ "m" :> <<"M">> @@ "n" :> <<"N">> @@ "o" :> <<"O">> @@
    "p" :> <<"P">> @@ "q" :> <<"Q">> @@ "r" :> <<"R">> @@ "s" :> <<"S">> @@ "t" :> <<"T">> @@
    "u" :> <<"U">> @@ "v" :> <<"V">> @@ "w" :> <<"W">> @@ "x" :> <<"X">> @@ "y" :> <<"Y">> @@
    "z" :> <<"Z">> @@ "u00E7" :> <<"u00C7">> @@ "u011F" :> <<"u011E">> @@ "u0131" :> <<"I">> @@
    "u00F6" :> <<"u00D6">> @@ "u015F" :> <<"u015E">> @@ "u00FC" :> <<"u00DC">> @@
    "u00E9" :> <<"u00C9">> @@ "u00E8" :> <<"u00C8">> @@ "u00EA" :> <<"u00CA">> @@
    "u00E1" :> <<"u00C1">> @@ "u00E0" :> <<"u00C0">> @@ "u00E2" :> <<"u00C2">> @@
    "u00ED" :> <<"u00CD">> @@ "u00EC" :> <<"u00CC">> @@ "u00EE" :> <<"u00CE">> @@
    "u00F3" :> <<"u00D3">> @@ "u00F2" :> <<"u00D2">> @@ "u00F4" :> <<"u00D4">> @@
    "u00FA" :> <<"u00DA">> @@ "u00F9" :> <<"u00D9">> @@ "u00FB" :> <<"u00DB">> @@
    "u00FF" :> <<"u0178">> @@ "u00FD" :> <<"u00DD">> @@ "u017E" :> <<"u017D">> @@
    "u00F1" :> <<"u00D1">> @@ "u00DF" :> <<"S", "s">> @@ "u00E4" :> <<"u00C4">> @@
    "u00E3" :> <<"u00C3">> @@ "u00E5" :> <<"u00C5">> @@ "u00EB" :> <<"u00CB">> @@
    "u00EF" :> <<"u00CF">> @@ "u00F5" :> <<"u00D5">> @@ "u00F8" :> <<"u00D8">>

UpperLetters ==
    { "A", "B", "C", "D", "E", "F", "G", "H", "I", "J", "K", "L", "M", "N", "O", "P", "Q", "R",
    "S", "T", "U", "V", "W", "X", "Y", "Z", "u00C7", "u011E", "u0130", "u00D6", "u015E",
    "u00DC", "u00C9", "u00C8", "u00CA", "u00C1", "u00C0", "u00C2", "u00CD", "u00CC", "u00CE",
    "u00D3", "u00D2", "u00D4", "u00DA", "u00D9", "u00DB", "u0178", "u00DD", "u017D", "u00D1",
    "u00C4", "u00C3", "u00C5", "u00CB", "u00CF", "u00D5", "u00D8" }

LowerLetters ==
    { "a", "b", "c", "d", "e", "f", "g", "h", "i", "j", "k", "l", "m", "n", "o", "p", "q", "r",
    "s", "t", "u", "v", "w", "x", "y", "z", "u00E7", "u011F", "u0131", "u00F6", "u015F",
    "u00FC", "u00E9", "u00E8", "u00EA", "u00E1", "u00E0", "u00E2", "u00ED", "u00EC", "u00EE",
    "u00F3", "u00F2", "u00F4", "u00FA", "u00F9", "u00FB", "u00FF", "u00FD", "u017E", "u00F1",
    "u00DF", "u00E4", "u00E3", "u00E5", "u00EB", "u00EF", "u00F5", "u00F8" }

(***************************************************************************)
(* Python string primitives                                                *)
(***************************************************************************)

\* str.lower() of one character (a sequence: U+0130 lowers to two code points)
LowerChar(c) == IF c \in DOMAIN LowerTable THEN LowerTable[c] ELSE <<c>>

\* title-casing of one character, as str.capitalize() applies to the first one
TitleChar(c) == IF c \in DOMAIN TitleTable THEN TitleTable[c] ELSE <<c>>

RECURSIVE Lower(_)
\* str.lower()
Lower(s) == IF s = <<>> THEN <<>> ELSE LowerChar(Head(s)) \o Lower(Tail(s))

RECURSIVE LStrip(_)
LStrip(s) ==
    IF s # <<>> /\ Head(s) \in UnicodeWhitespace THEN LStrip(Tail(s)) ELSE s

RECURSIVE RStrip(_)
RStrip(s) ==
    IF s # <<>> /\ s[Len(s)] \in UnicodeWhitespace
    THEN RStrip(SubSeq(s, 1, Len(s) - 1))
    ELSE s

\* str.strip()
Strip(s) == RStrip(LStrip(s))

RECURSIVE SplitFrom(_, _, _)
\* words: the words completed so far; cur: the word being read
SplitFrom(s, words, cur) ==
    IF s = <<>>
    THEN IF cur = <<>> THEN words ELSE Append(words, cur)
    ELSE IF Head(s) \in UnicodeWhitespace
         THEN SplitFrom(Tail(s), IF cur = <<>> THEN words ELSE Append(words, cur), <<>>)
         ELSE SplitFrom(Tail(s), words, Append(cur, Head(s)))

\* str.split() with no argument
Split(s) == SplitFrom(s, <<>>, <<>>)

RECURSIVE Join(_)
\* ' '.join(words)
Join(words) ==
    IF words = <<>> THEN <<>>
    ELSE IF Len(words) = 1 THEN words[1]
    ELSE words[1] \o <<" ">> \o Join(Tail(words))

\* s.startswith(prefix)
StartsWith(s, prefix) ==
    Len(prefix) <= Len(s) /\ SubSeq(s, 1, Len(prefix)) = prefix

\* sub in s
Contains(sub, s) ==
    \E i \in 1..(Len(s) + 1) :
        i + Len(sub) - 1 <= Len(s) /\ SubSeq(s, i, i + Len(sub) - 1) = sub

\* str.capitalize() with the remainder left as it is
CapitalizeKeepRest(word) ==
    IF word = <<>> THEN <<>> ELSE TitleChar(Head(word)) \o Tail(word)

\* str.capitalize(): first character title-cased, the rest lower-cased
Capitalize(word) ==
    IF word = <<>> THEN <<>> ELSE TitleChar(Head(word)) \o Lower(Tail(word))

(***************************************************************************)
(* Name checks                                                             *)
(***************************************************************************)

\* the character class of the patterns of clean_name and is_latin_name
InPattern(c) ==
    c \in AsciiLetters \cup PatternDiacritics \cup UnicodeWhitespace \cup {"'", "?", "-"}

\* the character class of replace_non_latin_characters: the same without '?'
InReplacePattern(c) ==
    c \in AsciiLetters \cup PatternDiacritics \cup UnicodeWhitespace \cup {"'", "-"}

\* valid_chars of process_csv
valid_chars == AsciiLetters \cup AsciiWhitespace \cup ValidDiacritics

clean_name(name) ==
    LET cleaned_name == Strip(SelectSeq(name, InPattern))
        words == Split(cleaned_name)
    IN  Join([i \in 1..Len(words) |-> Capitalize(words[i])])

replace_non_latin_characters(name) ==
    Strip([i \in 1..Len(name) |-> IF InReplacePattern(name[i]) THEN name[i] ELSE "?"])

is_valid_name(name) == Len(Split(name)) >= 2

is_latin_name(name) == name # <<>> /\ \A i \in 1..Len(name) : InPattern(name[i])

all_question_marks(name) == \A i \in 1..Len(name) : name[i] = "?"

\* token.ent_type_ == 'ORG' or token.ent_type_ == 'PERSON'
is_professional_title(ent_type) == ent_type = "ORG" \/ ent_type = "PERSON"

\* the four checks of is_valid_name_spacy that come before the recognizer
PassesPreChecks(name, blacklist) ==
    LET name_lower == Lower(name)
        parts == Split(name)
        u_dot == Contains(<<"u", ".">>, name_lower)
    IN  /\ \A i \in 1..Len(name) : name[i] \in valid_chars
        /\ \A k \in 1..Len(blacklist) : ~Contains(Lower(blacklist[k]), name_lower)
        /\ ~(Len(parts) = 1 /\ ~u_dot)
        /\ ~((\E i \in 1..Len(parts) : Len(parts[i]) = 1) /\ ~u_dot)

\* ents: the entity type the recognizer gives each token of nlp(name)
is_valid_name_spacy(name, blacklist, ents) ==
    /\ PassesPreChecks(name, blacklist)
    /\ IF \E i \in 1..Len(ents) : is_professional_title(ents[i]) THEN TRUE ELSE TRUE

(***************************************************************************)
(* Phone clean-up                                                          *)
(***************************************************************************)

RECURSIVE DropLeadingNonDigits(_)
\* re.sub of the alternative ^\D+
DropLeadingNonDigits(s) ==
    IF s # <<>> /\ Head(s) \notin Digits THEN DropLeadingNonDigits(Tail(s)) ELSE s

RECURSIVE DropTrailingNonDigits(_)
\* re.sub of the alternative \D+$
DropTrailingNonDigits(s) ==
    IF s # <<>> /\ s[Len(s)] \notin Digits
    THEN DropTrailingNonDigits(SubSeq(s, 1, Len(s) - 1))
    ELSE s

\* re.sub(r'(?<!^)\D', '', s): every non-digit that is not at position 0
DropInnerNonDigits(s) ==
    IF s = <<>> THEN <<>>
    ELSE <<Head(s)>> \o SelectSeq(Tail(s), LAMBDA c : c \in Digits)

clean_phone_number(phone_number) ==
    DropInnerNonDigits(DropTrailingNonDigits(DropLeadingNonDigits(phone_number)))

RECURSIVE LStripZeros(_)
\* s.lstrip('0')
LStripZeros(s) == IF s # <<>> /\ Head(s) = "0" THEN LStripZeros(Tail(s)) ELSE s

\* the string convert_to_international hands to phonenumbers.parse
DialString(phone_number) ==
    LET cleaned_number == clean_phone_number(phone_number)
    IN  IF ~(StartsWith(cleaned_number, <<"+">>) \/ StartsWith(cleaned_number, <<"0", "0">>))
        THEN <<"0">> \o LStripZeros(cleaned_number)
        ELSE cleaned_number

\* E.164 without the '+' of a number dialled from region DE: the digits after
\* '+' or after the international prefix 00, or 49 and the national number
NumericFormat(dial) ==
    IF StartsWith(dial, <<"+">>) THEN Tail(dial)
    ELSE IF StartsWith(dial, <<"0", "0">>) THEN Tail(Tail(dial))
    ELSE <<"4", "9">> \o LStripZeros(dial)

(***************************************************************************)
(* Inputs                                                                  *)
(***************************************************************************)

\* rows a run reads
MaxRows == 2
\* length of the names the normalizer is applied to exhaustively
MaxNameLen == 4
\* length of the phone strings the clean-up is applied to exhaustively
MaxPhoneLen == 3

\* "ab cd"
NameLower == <<"a", "b", " ", "c", "d">>
\* U+674E U+660E, no Latin character at all
NameChinese == <<"u674E", "u660E">>
\* U+674E "a": one word once the ideograph is replaced
NameMixed == <<"u674E", "a">>
\* "a" U+674E " b": two words once the ideograph is replaced
NameMixedTwo == <<"a", "u674E", " ", "b">>
\* "Schmidt"
NameSingle == <<"S", "c", "h", "m", "i", "d", "t">>
\* "a" U+0130 " b"
NameDotted == <<"a", "u0130", " ", "b">>
\* "ab  cd", two spaces
NameDoubleSpace == <<"a", "b", " ", " ", "c", "d">>
\* "Jean-Fran" U+00E7 "ois M" U+00FC "ller"
NameJean ==
    <<"J", "e", "a", "n", "-", "F", "r", "a", "n", "u00E7", "o", "i", "s", " ",
      "M", "u00FC", "l", "l", "e", "r">>

SampleNames ==
    { NameLower, NameChinese, NameMixed, NameMixedTwo, NameSingle, NameDotted,
      NameDoubleSpace, NameJean }

\* "tel: 0170-1234567 !!"
PhoneLocal ==
    <<"t", "e", "l", ":", " ", "0", "1", "7", "0", "-", "1", "2", "3", "4", "5", "6", "7",
      " ", "!", "!">>
\* "12345"
PhoneShort == <<"1", "2", "3", "4", "5">>
\* "+491701234567"
PhonePlus == <<"+", "4", "9", "1", "7", "0", "1", "2", "3", "4", "5", "6", "7">>

SamplePhones == { PhoneLocal, PhoneShort, PhonePlus }

\* the rows of the input files: name, phone and the twelve other fields as one value
SampleRows ==
    { [name |-> NameLower, phone |-> PhoneLocal, rest |-> "lead"],
      [name |-> NameLower, phone |-> PhonePlus, rest |-> ""],
      [name |-> NameChinese, phone |-> PhoneLocal, rest |-> "lead"],
      [name |-> NameMixed, phone |-> PhoneShort, rest |-> "lead"],
      [name |-> NameMixedTwo, phone |-> PhoneLocal, rest |-> ""],
      [name |-> NameSingle, phone |-> PhonePlus, rest |-> "lead"],
      [name |-> NameDotted, phone |-> PhoneLocal, rest |-> "lead"],
      [name |-> NameDoubleSpace, phone |-> PhoneShort, rest |-> ""],
      [name |-> NameJean, phone |-> PhoneLocal, rest |-> "lead"] }

RECURSIVE SeqsUpTo(_, _)
\* the sequences over S of length at most n
SeqsUpTo(S, n) ==
    IF n = 0 THEN { <<>> }
    ELSE LET shorter == SeqsUpTo(S, n - 1)
         IN  shorter \cup { Append(s, c) : s \in shorter, c \in S }

NameAlphabet == { "a", "B", " ", "1", "u0130" }
BoundedNames == SeqsUpTo(NameAlphabet, MaxNameLen)

\* the names of the one-row input files
RecordAlphabet == { "a", "B", " ", "1" }
RecordNames == SeqsUpTo(RecordAlphabet, MaxNameLen)

PhoneAlphabet == { "+", "0", "1", "-" }
BoundedPhones == SeqsUpTo(PhoneAlphabet, MaxPhoneLen)

\* the header process_csv expects ('Adi Soyadi' with dotless i in the source)
expected_fields ==
    <<"Adu0131 Soyadu0131", "Telefon", "Email", "p", "Not", "n", "Lead Olusturulma Tarihi",
      "Lead Olusruran Adu0131", "ls", "d", "t", "las", "hf", "r">>

\* headers of input files: the expected one, one with two columns swapped,
\* one with the last column missing
Headers ==
    { expected_fields,
      [i \in 1..Len(expected_fields) |->
          IF i = 1 THEN expected_fields[2]
          ELSE IF i = 2 THEN expected_fields[1] ELSE expected_fields[i]],
      SubSeq(expected_fields, 1, Len(expected_fields) - 1) }

\* blacklist files: empty, and one with the line "ab cd"
Blacklists == { <<>>, << <<"a", "b", " ", "c", "d">> >> }

Stages == { "name", "spacy", "number" }

\* entity types the recognizer gives a token ("" for none)
EntTypes == { "ORG", "PERSON", "" }

(***************************************************************************)
(* State                                                                   *)
(***************************************************************************)

VARIABLES
    pc,                 \* where process_csv (or the function under test) stands
    process_types,      \* --process_types
    replace_non_latin,  \* --replace_non_latin
    blacklist,          \* the lines of the blacklist file
    fieldnames,         \* the header row of the input file
    nread,              \* rows read from the input so far
    row,                \* the row of the current iteration
    name,               \* locals of the loop body
    phone_number,
    cleaned_name,
    cleaned_number,     \* local of convert_to_international, as handed to the parser
    converted_number,
    doc,                \* local of is_valid_name_spacy: the recognizer's output, if it ran
    invalid_numbers,    \* the four report lists
    invalid_names,
    non_latin_names,
    changed_names,
    outfile,            \* the output file: opened, header lines, row lines
    hist                \* per row read: what the iteration did with it

vars ==
    <<pc, process_types, replace_non_latin, blacklist, fieldnames, nread, row, name,
      phone_number, cleaned_name, cleaned_number, converted_number, doc, invalid_numbers,
      invalid_names, non_latin_names, changed_names, outfile, hist>>

config == <<process_types, replace_non_latin, blacklist, fieldnames>>
locals == <<name, phone_number, cleaned_name, cleaned_number, converted_number, doc>>
buckets == <<invalid_numbers, invalid_names, non_latin_names, changed_names>>

\* Python's None and a value that is not None
None == <<>>
Some(v) == <<v>>

NoRow == [name |-> <<>>, phone |-> <<>>, rest |-> ""]

\* f"{original} -> {changed}"
Arrow(original, changed) == original \o <<" ", "-", ">", " ">> \o changed

Idle ==
    /\ nread = 0
    /\ row = NoRow
    /\ name = <<>>
    /\ phone_number = <<>>
    /\ cleaned_name = <<>>
    /\ cleaned_number = <<>>
    /\ converted_number = None
    /\ doc = None
    /\ invalid_numbers = <<>>
    /\ invalid_names = <<>>
    /\ non_latin_names = <<>>
    /\ changed_names = <<>>
    /\ outfile = [opened |-> FALSE, header |-> <<>>, rows |-> <<>>]
    /\ hist = <<>>

Init ==
    /\ pc = "start"
    /\ process_types \in (SUBSET Stages) \ { {} }
    /\ replace_non_latin \in BOOLEAN
    /\ blacklist \in Blacklists
    /\ fieldnames \in Headers
    /\ Idle

(***************************************************************************)
(* process_csv                                                             *)
(***************************************************************************)

\* the header comparison that lets sets of columns through in any order
HeaderMatchesUnordered(found) ==
    { found[i] : i \in 1..Len(found) } = { expected_fields[i] : i \in 1..Len(expected_fields) }

\* fieldnames != expected_fields, negated
HeaderMatches(found) == found = expected_fields

\* a stage test that is always true
StageAlwaysActive(stage) == TRUE

\* 'name' in process_types, 'spacy' in process_types, 'number' in process_types
StageActive(stage) == stage \in process_types

\* a rejection that falls through to the next stage
ContinueFallThrough(next) == next

\* continue: back to the head of the loop instead of the next stage
Continue(next) == "row"

\* the entries the current iteration adds to hist
Noted(entries) == [hist EXCEPT ![nread].appended = @ \o entries]

\* one append to a report list: the stage that made it, the list, the value
Entry(stage, bucket, value) == [stage |-> stage, bucket |-> bucket, value |-> value]

\* open both files, compare the header, write it
CheckHeader ==
    /\ pc = "start"
    /\ IF ~HeaderMatches(fieldnames)
       THEN /\ pc' = "aborted"
            /\ outfile' = [outfile EXCEPT !.opened = TRUE]
       ELSE /\ pc' = "row"
            /\ outfile' = [outfile EXCEPT !.opened = TRUE, !.header = Append(@, fieldnames)]
    /\ UNCHANGED <<config, nread, row, locals, buckets, hist>>

\* for row in reader: the next row of the input, and the two field reads
Read(r) ==
    /\ nread' = nread + 1
    /\ row' = r
    /\ name' = r.name
    /\ phone_number' = r.phone
    /\ cleaned_name' = <<>>
    /\ cleaned_number' = <<>>
    /\ converted_number' = None
    /\ doc' = None
    /\ hist' = Append(hist, [raw |-> r, appended |-> <<>>, spacy |-> None,
                             phone |-> None, written |-> None])
    /\ pc' = "name"
    /\ UNCHANGED <<config, buckets, outfile>>

ReadRow ==
    /\ pc = "row"
    /\ nread < MaxRows
    /\ \E r \in SampleRows : Read(r)

\* the reader is exhausted: the files close and the lists are printed
EndOfInput ==
    /\ pc = "row"
    /\ pc' = "done"
    /\ UNCHANGED <<config, nread, row, locals, buckets, outfile, hist>>

\* if 'name' in process_types: ...
NameStage ==
    /\ pc = "name"
    /\ IF ~StageActive("name")
       THEN /\ pc' = "spacy"
            /\ UNCHANGED <<row, name, cleaned_name, buckets, hist>>
       ELSE LET latin == is_latin_name(name)
                replaced == IF ~latin /\ replace_non_latin
                            THEN replace_non_latin_characters(name)
                            ELSE name
                dropNonLatin == ~latin /\ (~replace_non_latin \/ all_question_marks(replaced))
                cleaned == clean_name(replaced)
                dropInvalid == ~dropNonLatin /\ ~is_valid_name(cleaned)
                accepted == ~dropNonLatin /\ ~dropInvalid
                audit == (IF ~latin /\ ~dropNonLatin
                          THEN <<Arrow(name, replaced)>> ELSE <<>>)
                         \o (IF accepted /\ cleaned # replaced
                             THEN <<Arrow(replaced, cleaned)>> ELSE <<>>)
            IN  /\ name' = replaced
                /\ cleaned_name' = IF dropNonLatin THEN cleaned_name ELSE cleaned
                /\ non_latin_names' = IF dropNonLatin
                                      THEN Append(non_latin_names, name)
                                      ELSE non_latin_names
                /\ invalid_names' = IF dropInvalid
                                    THEN Append(invalid_names, replaced)
                                    ELSE invalid_names
                /\ changed_names' = changed_names \o audit
                /\ row' = IF accepted THEN [row EXCEPT !.name = cleaned] ELSE row
                /\ hist' = Noted([i \in 1..Len(audit) |-> Entry("name", "changed_names", audit[i])]
                                 \o (IF dropNonLatin
                                     THEN <<Entry("name", "non_latin_names", name)>> ELSE <<>>)
                                 \o (IF dropInvalid
                                     THEN <<Entry("name", "invalid_names", replaced)>>
                                     ELSE <<>>))
                /\ pc' = IF accepted THEN "spacy" ELSE Continue("spacy")
                /\ UNCHANGED invalid_numbers
    /\ UNCHANGED <<config, nread, phone_number, cleaned_number, converted_number, doc,
                   outfile>>

\* if 'spacy' in process_types: ...  The recognizer runs only on a name that
\* passed the checks before it, and gives each token an entity type.
SpacyStage ==
    /\ pc = "spacy"
    /\ IF ~StageActive("spacy")
       THEN /\ pc' = "number"
            /\ UNCHANGED <<doc, invalid_names, hist>>
       ELSE \E ents \in [1..Len(Split(name)) -> EntTypes] :
                LET called == PassesPreChecks(name, blacklist)
                    ok == is_valid_name_spacy(name, blacklist, IF called THEN ents ELSE <<>>)
                IN  /\ called \/ \A i \in 1..Len(ents) : ents[i] = ""
                    /\ doc' = IF called THEN Some(ents) ELSE None
                    /\ invalid_names' = IF ok THEN invalid_names
                                        ELSE Append(invalid_names, name)
                    /\ hist' = [Noted(IF ok THEN <<>>
                                      ELSE <<Entry("spacy", "invalid_names", name)>>)
                                  EXCEPT ![nread].spacy = Some(ok)]
                    /\ pc' = IF ok THEN "number" ELSE Continue("number")
    /\ UNCHANGED <<config, nread, row, name, phone_number, cleaned_name, cleaned_number,
                   converted_number, invalid_numbers, non_latin_names, changed_names,
                   outfile>>

\* if 'number' in process_types: ...  Whether the parsed number is possible and
\* valid is the numbering plan's verdict, which the library gives.
NumberStage ==
    /\ pc = "number"
    /\ IF ~StageActive("number")
       THEN /\ pc' = "write"
            /\ UNCHANGED <<row, cleaned_number, converted_number, invalid_numbers, hist>>
       ELSE \E valid \in BOOLEAN :
                LET dial == DialString(phone_number)
                    converted == IF valid THEN Some(NumericFormat(dial)) ELSE None
                    falsy == converted = None \/ converted[1] = <<>>
                IN  /\ cleaned_number' = dial
                    /\ converted_number' = converted
                    /\ invalid_numbers' = IF falsy
                                          THEN Append(invalid_numbers, phone_number)
                                          ELSE invalid_numbers
                    /\ row' = IF falsy THEN row ELSE [row EXCEPT !.phone = converted[1]]
                    /\ hist' = [Noted(IF falsy
                                      THEN <<Entry("number", "invalid_numbers", phone_number)>>
                                      ELSE <<>>)
                                  EXCEPT ![nread].phone = Some(converted)]
                    /\ pc' = IF falsy THEN Continue("write") ELSE "write"
    /\ UNCHANGED <<config, nread, name, phone_number, cleaned_name, doc, invalid_names,
                   non_latin_names, changed_names, outfile>>

\* writer.writerow(row)
WriteRow ==
    /\ pc = "write"
    /\ outfile' = [outfile EXCEPT !.rows = Append(@, row)]
    /\ hist' = [hist EXCEPT ![nread].written = Some(row)]
    /\ pc' = "row"
    /\ UNCHANGED <<config, nread, row, locals, buckets>>

Next ==
    \/ CheckHeader
    \/ ReadRow
    \/ EndOfInput
    \/ NameStage
    \/ SpacyStage
    \/ NumberStage
    \/ WriteRow

Spec == Init /\ [][Next]_vars

(***************************************************************************)
(* One record with every short name                                        *)
(***************************************************************************)

\* a one-row input file whose name is any string of at most MaxNameLen characters
ReadRecord ==
    /\ pc = "row"
    /\ nread = 0
    /\ \E nm \in RecordNames, ph \in { PhoneLocal, PhoneShort } :
           Read([name |-> nm, phone |-> ph, rest |-> "lead"])

NextRecord ==
    \/ CheckHeader
    \/ ReadRecord
    \/ EndOfInput
    \/ NameStage
    \/ SpacyStage
    \/ NumberStage
    \/ WriteRow

SpecRecord == Init /\ [][NextRecord]_vars

(***************************************************************************)
(* The normalizers on their own                                            *)
(***************************************************************************)

InitName ==
    /\ pc = "clean_name"
    /\ process_types = { "name" }
    /\ replace_non_latin = FALSE
    /\ blacklist = <<>>
    /\ fieldnames = expected_fields
    /\ name \in BoundedNames \cup SampleNames
    /\ nread = 0
    /\ row = NoRow
    /\ phone_number = <<>>
    /\ cleaned_name = <<>>
    /\ cleaned_number = <<>>
    /\ converted_number = None
    /\ doc = None
    /\ invalid_numbers = <<>>
    /\ invalid_names = <<>>
    /\ non_latin_names = <<>>
    /\ changed_names = <<>>
    /\ outfile = [opened |-> FALSE, header |-> <<>>, rows |-> <<>>]
    /\ hist = <<>>

\* cleaned_name = clean_name(name)
CallCleanName ==
    /\ pc = "clean_name"
    /\ cleaned_name' = clean_name(name)
    /\ pc' = "clean_name_returned"
    /\ UNCHANGED <<config, nread, row, name, phone_number, cleaned_number, converted_number,
                   doc, buckets, outfile, hist>>

NextName == CallCleanName

SpecName == InitName /\ [][NextName]_vars

InitPhone ==
    /\ pc = "convert_to_international"
    /\ process_types = { "number" }
    /\ replace_non_latin = FALSE
    /\ blacklist = <<>>
    /\ fieldnames = expected_fields
    /\ phone_number \in BoundedPhones \cup SamplePhones
    /\ nread = 0
    /\ row = NoRow
    /\ name = <<>>
    /\ cleaned_name = <<>>
    /\ cleaned_number = <<>>
    /\ converted_number = None
    /\ doc = None
    /\ invalid_numbers = <<>>
    /\ invalid_names = <<>>
    /\ non_latin_names = <<>>
    /\ changed_names = <<>>
    /\ outfile = [opened |-> FALSE, header |-> <<>>, rows |-> <<>>]
    /\ hist = <<>>

\* converted_number = convert_to_international(phone_number)
CallConvert ==
    /\ pc = "convert_to_international"
    /\ \E valid \in BOOLEAN :
           /\ cleaned_number' = DialString(phone_number)
           /\ converted_number' = IF valid
                                  THEN Some(NumericFormat(DialString(phone_number)))
                                  ELSE None
    /\ pc' = "convert_returned"
    /\ UNCHANGED <<config, nread, row, name, phone_number, cleaned_name, doc, buckets,
                   outfile, hist>>

NextPhone == CallConvert

SpecPhone == InitPhone /\ [][NextPhone]_vars

(***************************************************************************)
(* Properties                                                              *)
(***************************************************************************)

\* the appends of one iteration to the three rejection lists
Rejections(h) == SelectSeq(h.appended, LAMBDA e : e.bucket # "changed_names")

\* the appends of one iteration to changed_names
Audits(h) == SelectSeq(h.appended, LAMBDA e : e.bucket = "changed_names")

\* the iteration of row i is over
Finished(i) == i < nread \/ pc \in { "row", "done" }

\* C1: every record appears in at most one of the three rejection lists, and a
\* record that has an entry in changed_names was accepted: it is never rejected,
\* and it is written once its iteration is over.
C1_OneBucketAuditAccepted ==
    \A i \in 1..Len(hist) :
        /\ Len(Rejections(hist[i])) <= 1
        /\ Len(Audits(hist[i])) > 0 =>
               /\ Rejections(hist[i]) = <<>>
               /\ Finished(i) => hist[i].written # None

\* C2: a rejected record is not written, the value appended to its report list
\* is the raw field of the input row (the phone for invalid_numbers, the name
\* otherwise), and the run goes on with the next record.
C2_RejectedRawValue ==
    \A i \in 1..Len(hist) :
        \A k \in 1..Len(Rejections(hist[i])) :
            LET e == Rejections(hist[i])[k]
            IN  /\ e.value = IF e.bucket = "invalid_numbers"
                             THEN hist[i].raw.phone
                             ELSE hist[i].raw.name
                /\ hist[i].written = None
                /\ i = nread => pc \in { "row", "done" }

\* the Name stage rejected the record of this iteration
RejectedAtName(h) ==
    \E k \in 1..Len(h.appended) :
        h.appended[k].stage = "name" /\ h.appended[k].bucket # "changed_names"

\* C3: with Name and Number active, a record rejected at the Name stage never
\* reaches the Number stage: convert_to_international is not called for it, its
\* phone field stays as read, nothing goes to invalid_numbers for it, and it is
\* not written.
C3_NameRejectSkipsNumber ==
    { "name", "number" } \subseteq process_types =>
        \A i \in 1..Len(hist) :
            RejectedAtName(hist[i]) =>
                /\ hist[i].phone = None
                /\ \A k \in 1..Len(hist[i].appended) :
                       hist[i].appended[k].bucket # "invalid_numbers"
                /\ hist[i].written = None
                /\ i = nread => row.phone = hist[i].raw.phone /\ converted_number = None

\* a run with Name and Number active has dropped a record at the Name stage and
\* gone on to the next row
C3_Witness ==
    /\ { "name", "number" } \subseteq process_types
    /\ nread >= 2
    /\ RejectedAtName(hist[1])
    /\ pc = "number"

\* C4: for a name that passes the character, blacklist, single-token and
\* single-character-token checks, is_valid_name_spacy is true if and only if
\* the recognizer tags at least one token ORG or PERSON.
C4_EntityGate ==
    (nread > 0 /\ hist[nread].spacy # None /\ PassesPreChecks(name, blacklist)) =>
        (hist[nread].spacy[1] <=>
            (doc # None /\ \E i \in 1..Len(doc[1]) : is_professional_title(doc[1][i])))

\* p is '+' followed by one or more digits
PlusDigits(p) ==
    Len(p) >= 2 /\ p[1] = "+" /\ \A i \in 2..Len(p) : p[i] \in Digits

\* C5: a '+' at position 0 survives the clean-up, so a number written as '+'
\* and digits is handed to the parser as it is, not as a local number (no zero
\* stripped, no 0 prepended).
C5_PlusPreserved ==
    (pc = "convert_returned" /\ PlusDigits(phone_number)) => cleaned_number = phone_number

\* every character is allowed, the words are single-spaced with nothing to trim,
\* and every word starts with an upper-case letter
AlreadyCapitalized(n) ==
    /\ \A i \in 1..Len(n) : InPattern(n[i])
    /\ n = Join(Split(n))
    /\ \A w \in 1..Len(Split(n)) : Split(n)[w][1] \in UpperLetters

\* no word has an upper-case letter after its first character
NoInnerUpper(n) ==
    \A w \in 1..Len(Split(n)) :
        \A k \in 2..Len(Split(n)[w]) : Split(n)[w][k] \notin UpperLetters

\* "Jean-fran" U+00E7 "ois M" U+00FC "ller"
NameJeanLowered ==
    <<"J", "e", "a", "n", "-", "f", "r", "a", "n", "u00E7", "o", "i", "s", " ",
      "M", "u00FC", "l", "l", "e", "r">>

\* C6 as stated: clean_name leaves the case of the characters after the first of
\* each word as it is, so a name of allowed characters whose words start with an
\* upper-case letter comes back unchanged.
C6_RemainderCaseKept ==
    (pc = "clean_name_returned" /\ AlreadyCapitalized(name)) => cleaned_name = name

\* C6, amended: clean_name upper-cases the first character of each word and
\* lower-cases the rest, so no word of the result starts with a lower-case
\* letter or has an upper-case letter after its first character; a name of
\* allowed characters whose words start with an upper-case letter comes back
\* unchanged when no word has a further upper-case letter, and
\* "Jean-Francois Muller" comes back with its F lowered.
C6_RemainderLowerCased ==
    pc = "clean_name_returned" =>
        /\ \A w \in 1..Len(Split(cleaned_name)) :
               Split(cleaned_name)[w][1] \notin LowerLetters
        /\ NoInnerUpper(cleaned_name)
        /\ (AlreadyCapitalized(name) /\ NoInnerUpper(name)) => cleaned_name = name
        /\ name = NameJean => cleaned_name = NameJeanLowered

\* clean_name has returned a name one of whose words had an inner upper-case letter
C6_Witness ==
    /\ pc = "clean_name_returned"
    /\ AlreadyCapitalized(name)
    /\ ~NoInnerUpper(name)
    /\ cleaned_name # name

\* letters, the fixed diacritic letters, space, apostrophe, hyphen, question mark
StrictAllowlist == AsciiLetters \cup PatternDiacritics \cup { " ", "'", "-", "?" }

\* C7: with the Name stage active, the name of every written record has at
\* least two whitespace-separated parts and only characters of the allowlist.
C7_WrittenNameAllowlisted ==
    "name" \in process_types =>
        \A i \in 1..Len(outfile.rows) :
            /\ Len(Split(outfile.rows[i].name)) >= 2
            /\ \A k \in 1..Len(outfile.rows[i].name) :
                   outfile.rows[i].name[k] \in StrictAllowlist

\* C8: when the header of the input differs from the expected one, no row is
\* read, neither header nor rows are written, and no report list gets an entry.
C8_HeaderMismatchAborts ==
    fieldnames # expected_fields =>
        /\ pc \in { "start", "aborted" }
        /\ nread = 0
        /\ hist = <<>>
        /\ outfile.header = <<>>
        /\ outfile.rows = <<>>
        /\ invalid_numbers = <<>>
        /\ invalid_names = <<>>
        /\ non_latin_names = <<>>
        /\ changed_names = <<>>

\* a run has stopped at a header that is not the expected one
C8_Witness == pc = "aborted" /\ fieldnames # expected_fields /\ outfile.opened

\* C9: an inactive stage neither changes nor checks its field.  With only
\* Number active every written name is the input name and no name list or
\* changed_names entry exists; without Number every written phone is the input
\* phone and invalid_numbers stays empty; the other fields are written as read.
C9_InactiveStagesFrame ==
    /\ process_types = { "number" } =>
           /\ invalid_names = <<>>
           /\ non_latin_names = <<>>
           /\ changed_names = <<>>
           /\ \A i \in 1..Len(hist) :
                  /\ hist[i].written # None => hist[i].written[1].name = hist[i].raw.name
                  /\ (Finished(i) /\ hist[i].phone # None
                        /\ hist[i].phone[1] \notin { None, Some(<<>>) })
                         => hist[i].written # None
    /\ "number" \notin process_types =>
           /\ invalid_numbers = <<>>
           /\ \A i \in 1..Len(hist) :
                  hist[i].written # None => hist[i].written[1].phone = hist[i].raw.phone
    /\ \A i \in 1..Len(hist) :
           hist[i].written # None => hist[i].written[1].rest = hist[i].raw.rest

\* a run with only Number active has written a record whose name is a single
\* token or has a character outside the Latin class
C9_Witness ==
    /\ process_types = { "number" }
    /\ \E i \in 1..Len(hist) :
           /\ hist[i].written # None
           /\ ~is_latin_name(hist[i].raw.name) \/ ~is_valid_name(hist[i].raw.name)
           /\ hist[i].written[1].name = hist[i].raw.name

\* C10: with Name and EntityCheck active, the entity check is given the cleaned
\* name stored into the record, so a record passes it only if the stored name
\* passes the checks of is_valid_name_spacy.
C10_EntityCheckOnCleaned ==
    ({ "name", "spacy" } \subseteq process_types /\ nread > 0 /\ pc # "name") =>
        (hist[nread].spacy = Some(TRUE) => PassesPreChecks(row.name, blacklist))

====
